---------------------------- MODULE Spec2Model ----------------------------
(***************************************************************************)
(* Model of src/app.py: the exam generator (filter_bank, pick_questions,   *)
(* generate_exam) and the do_generate branch of the Streamlit script.      *)
(*                                                                         *)
(* A Question is a record [id, topic, difficulty].  The statement and the  *)
(* answer take no part in filtering or selection and are left out.  A      *)
(* difficulty is a tuple of one-character strings so that str.lower() is   *)
(* a real conversion.  A topic is a string.                                *)
(*                                                                         *)
(* random.Random is the standard library's generator.  It is modelled as   *)
(* a small multiplicative congruential generator, and rng.sample() by the  *)
(* pool-swapping loop CPython runs for small populations: deterministic    *)
(* in the generator's state, without replacement.                          *)
(***************************************************************************)
EXTENDS Integers, Sequences, FiniteSets, TLC

\* ------------------------------------------------------------------ bounds
MaxBank == 4        \* longest bank (and candidate list)
MaxN    == 2        \* largest n_exercises requested
MaxSeed == 1        \* seeds are 0..MaxSeed

\* --------------------------------------------------------- the generator
RngModulus    == 61
RngMultiplier == 7

\* random.Random(seed): the state a seed initialises the generator to.
SeedState(s) == 1 + ((s * 13) % (RngModulus - 1))

\* One step of the generator.
NextState(st) == (st * RngMultiplier) % RngModulus

\* rng._randbelow(k) read off the generator's state after one step: 0..k-1.
RandBelow(st, k) == st % k

\* rng.sample(pool, k) for 0 <= k <= Len(pool): k draws, each taking
\* pool[j] and moving the last non-selected item into the vacancy.
RECURSIVE SampleLoop(_, _, _, _, _)
SampleLoop(st, pool, i, k, result) ==
    IF i = k
    THEN [result |-> result, rng |-> st]
    ELSE LET n   == Len(pool)
             st2 == NextState(st)
             j   == RandBelow(st2, n - i)
         IN  SampleLoop(st2, [pool EXCEPT ![j + 1] = pool[n - i]],
                        i + 1, k, Append(result, pool[j + 1]))

Sample(st, pool, k) == SampleLoop(st, pool, 0, k, <<>>)

\* ------------------------------------------------------------- questions
Tots  == "Tots"                          \* the topic wildcard
Totes == <<"T", "o", "t", "e", "s">>     \* the difficulty wildcard

LowerChar(c) ==
    CASE c = "A" -> "a"
      [] c = "B" -> "b"
      [] c = "T" -> "t"
      [] OTHER   -> c

\* str.lower()
Lower(s) == [i \in DOMAIN s |-> LowerChar(s[i])]

\* What a bank.yml item may say about topic and difficulty.
Kinds ==
    { [topic |-> "t1", difficulty |-> <<"a">>],
      [topic |-> "t1", difficulty |-> <<"B">>],
      [topic |-> "t2", difficulty |-> <<"a">>] }

TopicSelectors      == {Tots, "t1", "t2"}
DifficultySelectors == {Totes, <<"a">>, <<"B">>}

\* The parsed YAML with ids all different: items numbered 1..k in file
\* order.
NumberedBanks ==
    UNION { { [i \in 1..k |-> [id |-> i, topic |-> f[i].topic,
                               difficulty |-> f[i].difficulty]]
              : f \in [1..k -> Kinds] }
            : k \in 0..MaxBank }

\* The parsed YAML: also the files whose second item repeats the id of
\* the first.
RawBanks ==
    NumberedBanks
        \cup { [r EXCEPT ![2].id = r[1].id] :
                 r \in { x \in NumberedBanks : Len(x) >= 2 } }

\* Candidate lists as a caller of generate_exam may pass them: ids may
\* repeat.
AnyLists ==
    UNION { { [i \in 1..k |-> [id |-> f[i], topic |-> "t1",
                               difficulty |-> <<"a">>]]
              : f \in [1..k -> 1..3] }
            : k \in 1..MaxBank }

\* Banks of one topic and one difficulty, ids all different.
PlainBanks ==
    { [i \in 1..k |-> [id |-> i, topic |-> "t1", difficulty |-> <<"a">>]]
      : k \in 1..MaxBank }

\* load_bank_yml: the checks that reject the file ...
LoadFails(raw) ==
    \/ raw = <<>>
    \/ \E i, j \in DOMAIN raw : i # j /\ raw[i].id = raw[j].id

\* ... and the Question built from each item.
LoadBank(raw) ==
    [i \in DOMAIN raw |-> [id         |-> raw[i].id,
                           topic      |-> raw[i].topic,
                           difficulty |-> Lower(raw[i].difficulty)]]

\* ------------------------------------------------------------ filter_bank
TopicMatches(q, t) == q.topic = t

\* The comparison without the selector's .lower().
DifficultyMatchesExact(q, d) == q.difficulty = d

DifficultyMatches(q, d) == q.difficulty = Lower(d)

FilterBank(bk, t, d) ==
    LET c1 == IF t # Tots
              THEN SelectSeq(bk, LAMBDA q : TopicMatches(q, t))
              ELSE bk
    IN  IF d # Totes
        THEN SelectSeq(c1, LAMBDA q : DifficultyMatches(q, d))
        ELSE c1

\* --------------------------------------------------------- pick_questions
NoError ==
    [kind |-> "none", site |-> "none", available |-> 0, needed |-> 0,
     avoided |-> 0]

InvalidConfiguration(site) ==
    [kind |-> "InvalidConfiguration", site |-> site, available |-> 0,
     needed |-> 0, avoided |-> 0]

InsufficientPool(site, available, needed, avoided) ==
    [kind |-> "InsufficientPool", site |-> site, available |-> available,
     needed |-> needed, avoided |-> avoided]

\* The filter on avoid_ids left out.
EligibleAlways(q, avoid_ids) == TRUE

\* Is candidate q eligible given the ids to avoid?
Eligible(q, avoid_ids) == q.id \notin avoid_ids

\* pool = [q for q in candidates if q.id not in avoid_ids], as the
\* positions of those questions in candidates.
Pool(cands, avoid_ids) ==
    SelectSeq([i \in 1..Len(cands) |-> i],
              LAMBDA i : Eligible(cands[i], avoid_ids))

\* pick_questions without the len(pool) < n check: a short pool is
\* sampled whole.
PickQuestionsUnchecked(cands, st, n, avoid_ids) ==
    LET pool == Pool(cands, avoid_ids)
        k    == IF Len(pool) < n THEN Len(pool) ELSE n
        s    == Sample(st, pool, k)
    IN  [raised |-> FALSE, err |-> NoError, idx |-> s.result, rng |-> s.rng]

\* pick_questions(candidates, rng, n, avoid_ids): raises, or returns the
\* sampled positions and leaves the generator advanced.
PickQuestions(cands, st, n, avoid_ids) ==
    LET pool == Pool(cands, avoid_ids)
    IN  IF Len(pool) < n
        THEN [raised |-> TRUE,
              err    |-> InsufficientPool("pick_questions", Len(pool), n,
                                          Cardinality(avoid_ids)),
              idx    |-> <<>>,
              rng    |-> st]
        ELSE LET s == Sample(st, pool, n)
             IN  [raised |-> FALSE, err |-> NoError, idx |-> s.result,
                  rng |-> s.rng]

Questions(cands, idx) == [i \in DOMAIN idx |-> cands[idx[i]]]

Ids(qs) == { qs[i].id : i \in DOMAIN qs }


\* ---------------------------------------------------------- generate_exam
\* The count check with < for <=.
InvalidCountStrict(n) == n < 0

\* if n_exercises <= 0: raise
InvalidCount(n) == n <= 0

\* The empty-candidates check left out.
NoCandidatesIgnored(cands) == FALSE

\* if not candidates: raise
NoCandidates(cands) == cands = <<>>

\* needed taken as n_exercises whatever the flag.
NeededOnce(n, allow) == n

\* needed = n_exercises if allow_repeat_between_versions else 2 * n_exercises
Needed(n, allow) == IF allow THEN n ELSE 2 * n

\* B drawn with nothing to avoid whatever the flag.
AvoidNothing(allow, usedIds) == {}

\* avoid_for_b = set() if allow_repeat_between_versions else used
AvoidForB(allow, usedIds) == IF allow THEN {} ELSE usedIds

EmptyExam == [v \in {} |-> <<>>]

NoRet == [call |-> "none", n |-> 0, avoid_ids |-> {}, idx |-> <<>>,
          result |-> <<>>]

\* make_exam_pdf: per version, in order, the block printed for each
\* question (its topic and difficulty tag).
MakeExamPdf(ex) ==
    [v \in DOMAIN ex |->
        [i \in DOMAIN ex[v] |-> <<ex[v][i].topic, ex[v][i].difficulty>>]]

VARIABLES
    bank,           \* the loaded bank (module level, line 228)
    pc,             \* where the script run is
    topic,          \* sidebar: topic selector
    difficulty,     \* sidebar: difficulty selector
    seed,           \* chosen_seed
    n_exercises,
    two_versions,
    allow_repeat,
    candidates,     \* filter_bank's result, generate_exam's argument
    rng,            \* generate_exam's generator state; 0 before it exists
    used,           \* generate_exam's set of used ids
    a, b,           \* generate_exam's locals
    exam,           \* what generate_exam returned
    err,            \* the ValueError generate_exam raised
    shown,          \* the error st.error displayed
    pdf,            \* what make_exam_pdf produced
    download,       \* the PDF download button is on the page
    ret,            \* history: the last return of pick_questions
    draws,          \* history: calls of rng.sample in this generate_exam
    keepLog,        \* history: whether the previous call is remembered
    log             \* history: the previous generate_exam call, if kept

vars == <<bank, pc, topic, difficulty, seed, n_exercises, two_versions,
          allow_repeat, candidates, rng, used, a, b, exam, err, shown, pdf,
          download, ret, draws, keepLog, log>>

request == <<topic, difficulty, seed, n_exercises, two_versions,
             allow_repeat, candidates>>

Finished == pc \in {"stopped", "done"}

Fresh ==
    /\ topic = Tots /\ difficulty = Totes /\ seed = 0 /\ n_exercises = 1
    /\ two_versions = FALSE /\ allow_repeat = FALSE
    /\ candidates = <<>> /\ rng = 0 /\ used = {} /\ a = <<>> /\ b = <<>>
    /\ exam = EmptyExam /\ err = NoError /\ shown = NoError
    /\ pdf = EmptyExam /\ download = FALSE /\ ret = NoRet /\ draws = 0
    /\ log = <<>>

\* The script's start: bank.yml is loaded, or the run stops on the error.
Init ==
    /\ \E raw \in RawBanks :
          IF LoadFails(raw)
          THEN bank = <<>> /\ pc = "load_failed"
          ELSE bank = LoadBank(raw) /\ pc = "idle"
    /\ keepLog = FALSE
    /\ Fresh

\* generate_exam and filter_bank called on any list, ids repeating or not.
InitCalls ==
    /\ bank \in AnyLists
    /\ pc = "idle"
    /\ keepLog = FALSE
    /\ Fresh

\* As Init on plain banks, remembering the previous call.
InitRuns ==
    /\ bank \in PlainBanks
    /\ pc = "idle"
    /\ keepLog = TRUE
    /\ Fresh

\* The record of the generate_exam call that has just finished.
ThisCall ==
    [candidates |-> candidates, seed |-> seed, n_exercises |-> n_exercises,
     two_versions |-> two_versions, allow_repeat |-> allow_repeat,
     exam |-> exam, err |-> err]

\* A new run of the script begins (any interaction reruns it from the
\* top): nothing of the previous run's page or locals is left.
Rerun ==
    /\ Finished
    /\ log' = IF keepLog THEN <<ThisCall>> ELSE log
    /\ topic' = Tots /\ difficulty' = Totes /\ seed' = 0
    /\ n_exercises' = 1 /\ two_versions' = FALSE /\ allow_repeat' = FALSE
    /\ candidates' = <<>> /\ rng' = 0 /\ used' = {} /\ a' = <<>>
    /\ b' = <<>> /\ exam' = EmptyExam /\ err' = NoError
    /\ shown' = NoError /\ pdf' = EmptyExam /\ download' = FALSE
    /\ ret' = NoRet /\ draws' = 0
    /\ pc' = "idle"
    /\ UNCHANGED <<bank, keepLog>>

\* "Generar" is pressed: with do_generate true the script fixes the seed
\* and filters the bank (lines 267-269), then calls generate_exam.
Generar ==
    /\ pc = "idle"
    /\ \E t \in TopicSelectors, d \in DifficultySelectors,
          s \in 0..MaxSeed, n \in -1..MaxN, two \in BOOLEAN,
          rep \in BOOLEAN :
          /\ topic' = t
          /\ difficulty' = d
          /\ seed' = s
          /\ n_exercises' = n
          /\ two_versions' = two
          /\ allow_repeat' = rep
          /\ candidates' = FilterBank(bank, t, d)
    /\ pc' = "generate_exam"
    /\ UNCHANGED <<bank, rng, used, a, b, exam, err, shown, pdf, download,
                   ret, draws, keepLog, log>>

\* generate_exam raises e.
Raise(e) ==
    /\ err' = e
    /\ pc' = "raised"

\* Lines 99-102: the argument checks.
Validate ==
    /\ pc = "generate_exam"
    /\ IF InvalidCount(n_exercises)
       THEN Raise(InvalidConfiguration("n_exercises"))
       ELSE IF NoCandidates(candidates)
            THEN Raise(InvalidConfiguration("candidates"))
            ELSE pc' = "seed" /\ err' = err
    /\ UNCHANGED <<bank, request, rng, used, a, b, exam, shown, pdf,
                   download, ret, draws, keepLog, log>>

\* A generator seeded from the system's entropy instead of the seed.
CreateRngUnseeded ==
    /\ pc = "seed"
    /\ rng' \in 1..(RngModulus - 1)
    /\ pc' = IF two_versions THEN "check" ELSE "pickA"
    /\ UNCHANGED <<bank, request, used, a, b, exam, err, shown, pdf,
                   download, ret, draws, keepLog, log>>

\* Lines 104-106: rng = random.Random(seed), then the branch on
\* two_versions.
CreateRng ==
    /\ pc = "seed"
    /\ rng' = SeedState(seed)
    /\ pc' = IF two_versions THEN "check" ELSE "pickA"
    /\ UNCHANGED <<bank, request, used, a, b, exam, err, shown, pdf,
                   download, ret, draws, keepLog, log>>

\* Lines 109-117: the up-front check of the two-version path.
CheckPool ==
    /\ pc = "check"
    /\ LET needed == Needed(n_exercises, allow_repeat)
       IN  IF Len(candidates) < needed
           THEN /\ Raise(InsufficientPool("generate_exam", Len(candidates),
                                          needed, 0))
                /\ used' = used
           ELSE /\ used' = {}
                /\ pc' = "pickA"
                /\ err' = err
    /\ UNCHANGED <<bank, request, rng, a, b, exam, shown, pdf, download,
                   ret, draws, keepLog, log>>

\* Line 107, or lines 118-119: variant A is drawn from the stream in
\* state st.
PickAFrom(st) ==
    /\ pc = "pickA"
    /\ LET avoid == IF two_versions THEN used ELSE {}
           r     == PickQuestions(candidates, st, n_exercises, avoid)
           qs    == Questions(candidates, r.idx)
       IN  IF r.raised
           THEN /\ Raise(r.err)
                /\ UNCHANGED <<rng, used, a, exam, ret, draws>>
           ELSE /\ rng' = r.rng
                /\ a' = qs
                /\ ret' = [call |-> "A", n |-> n_exercises,
                           avoid_ids |-> avoid, idx |-> r.idx,
                           result |-> qs]
                /\ draws' = draws + 1
                /\ err' = err
                /\ IF two_versions
                   THEN /\ used' = used \cup Ids(qs)
                        /\ exam' = exam
                        /\ pc' = "pickB"
                   ELSE /\ used' = used
                        /\ exam' = [v \in {"A"} |-> qs]
                        /\ pc' = "returned"
    /\ UNCHANGED <<bank, request, b, shown, pdf, download, keepLog, log>>

\* Variant A drawn only after a draw of n_exercises questions has already
\* consumed the stream in the two-version path.
PickASecond ==
    PickAFrom(IF two_versions
              THEN Sample(rng, Pool(candidates, {}), n_exercises).rng
              ELSE rng)

PickA == PickAFrom(rng)

\* Lines 121-124: variant B, and the return of both.
PickB ==
    /\ pc = "pickB"
    /\ LET avoid == AvoidForB(allow_repeat, used)
           r     == PickQuestions(candidates, rng, n_exercises, avoid)
           qs    == Questions(candidates, r.idx)
       IN  IF r.raised
           THEN /\ Raise(r.err)
                /\ UNCHANGED <<rng, b, exam, ret, draws>>
           ELSE /\ rng' = r.rng
                /\ b' = qs
                /\ ret' = [call |-> "B", n |-> n_exercises,
                           avoid_ids |-> avoid, idx |-> r.idx,
                           result |-> qs]
                /\ draws' = draws + 1
                /\ err' = err
                /\ exam' = [v \in {"A", "B"} |-> IF v = "A" THEN a ELSE qs]
                /\ pc' = "returned"
    /\ UNCHANGED <<bank, request, used, a, shown, pdf, download, keepLog,
                   log>>

\* The except branch without st.stop(): the run goes on to render.
HandleErrorFallThrough ==
    /\ pc = "raised"
    /\ shown' = err
    /\ pc' = "returned"
    /\ UNCHANGED <<bank, request, rng, used, a, b, exam, err, pdf,
                   download, ret, draws, keepLog, log>>

\* Lines 279-282: the except branch shows the error and stops the run.
HandleError ==
    /\ pc = "raised"
    /\ shown' = err
    /\ pc' = "stopped"
    /\ UNCHANGED <<bank, request, rng, used, a, b, exam, err, pdf,
                   download, ret, draws, keepLog, log>>

\* Lines 284-300: the PDF is made from the exam and offered for download.
Render ==
    /\ pc = "returned"
    /\ pdf' = MakeExamPdf(exam)
    /\ download' = TRUE
    /\ pc' = "done"
    /\ UNCHANGED <<bank, request, rng, used, a, b, exam, err, shown, ret,
                   draws, keepLog, log>>

Next ==
    \/ Rerun
    \/ Generar
    \/ Validate
    \/ CreateRng
    \/ CheckPool
    \/ PickA
    \/ PickB
    \/ HandleError
    \/ Render

Spec      == Init /\ [][Next]_vars
SpecCalls == InitCalls /\ [][Next]_vars
SpecRuns  == InitRuns /\ [][Next]_vars

\* ------------------------------------------------------------ properties
\* generate_exam has returned (and the script may have rendered since).
Returned == pc \in {"returned", "done"}

\* generate_exam has raised (and the script may have stopped since).
Raised == pc \in {"raised", "stopped"}

UniqueIds(qs) == \A i, j \in DOMAIN qs : qs[i].id = qs[j].id => i = j

\* C1: after a successful call with two_versions and without repeats
\* allowed, no question id of variant A is a question id of variant B,
\* whatever the candidate list (ids repeating or not), seed and n.
C1_Disjoint ==
    (Returned /\ two_versions /\ ~allow_repeat)
        => Ids(exam["A"]) \cap Ids(exam["B"]) = {}

C1_Witness ==
    /\ pc = "returned" /\ two_versions /\ ~allow_repeat
    /\ n_exercises = 2
    /\ ~UniqueIds(candidates)
    /\ Len(exam["A"]) = 2 /\ Len(exam["B"]) = 2

\* C2: whenever generate_exam has returned, the result holds variant "A"
\* alone (one version) or "A" and "B" (two versions), and each variant has
\* exactly n_exercises questions.
C2_Cardinality ==
    Returned =>
        /\ DOMAIN exam = (IF two_versions THEN {"A", "B"} ELSE {"A"})
        /\ \A v \in DOMAIN exam : Len(exam[v]) = n_exercises

C2_Witness ==
    /\ pc = "returned" /\ two_versions /\ allow_repeat
    /\ n_exercises = 2 /\ Len(candidates) = 2
    /\ Len(exam["A"]) = 2 /\ Len(exam["B"]) = 2

\* The pool is too small for the request: fewer than n candidates for one
\* version, fewer than 2n for two versions without repeats.
TooFew ==
    \/ ~two_versions /\ Len(candidates) < n_exercises
    \/ two_versions /\ ~allow_repeat /\ Len(candidates) < 2 * n_exercises

\* C3 as stated: a call with too few candidates always fails with
\* InsufficientPool and returns no variant.
C3_AsStated ==
    TooFew =>
        /\ ~Returned
        /\ Raised => (err.kind = "InsufficientPool" /\ exam = EmptyExam)

\* C3 amended: a call with too few candidates always fails and returns no
\* variant; the failure is InsufficientPool when candidates is non-empty
\* and InvalidConfiguration when candidates is empty.
C3_Amended ==
    TooFew =>
        /\ ~Returned
        /\ Raised =>
              /\ exam = EmptyExam
              /\ err.kind = (IF candidates = <<>>
                             THEN "InvalidConfiguration"
                             ELSE "InsufficientPool")

C3_Witness ==
    /\ pc = "raised" /\ TooFew
    /\ two_versions /\ Len(candidates) = 3 /\ n_exercises = 2
    /\ err.kind = "InsufficientPool"
    /\ err.available = 3 /\ err.needed = 4

\* The previous call and this one had the same arguments.
SameArguments ==
    /\ log # <<>>
    /\ log[1].candidates = candidates
    /\ log[1].seed = seed
    /\ log[1].n_exercises = n_exercises
    /\ log[1].two_versions = two_versions
    /\ log[1].allow_repeat = allow_repeat

\* C4: a call of generate_exam with the same candidates (same order),
\* seed, n_exercises and flags as the call before it ends as that call
\* did: the same variants with the same questions in the same order, or
\* the same failure.
C4_Deterministic ==
    (SameArguments /\ (Returned \/ Raised))
        => (exam = log[1].exam /\ err = log[1].err)

C4_Witness ==
    /\ SameArguments /\ pc = "returned"
    /\ two_versions /\ ~allow_repeat /\ n_exercises = 2
    /\ exam = log[1].exam
    /\ Len(exam["B"]) = 2

\* C5: whenever pick_questions has returned, its result has n elements,
\* each is the candidate at a position of candidates, none has an id in
\* avoid_ids, and no position is chosen twice; when the candidates' ids
\* are all different, so are the ids of the result.
C5_PickQuestions ==
    ret.call # "none" =>
        /\ Len(ret.result) = ret.n
        /\ Len(ret.idx) = ret.n
        /\ \A i \in DOMAIN ret.idx :
              /\ ret.idx[i] \in 1..Len(candidates)
              /\ ret.result[i] = candidates[ret.idx[i]]
              /\ ret.result[i].id \notin ret.avoid_ids
        /\ \A i, j \in DOMAIN ret.idx : ret.idx[i] = ret.idx[j] => i = j
        /\ UniqueIds(candidates) => UniqueIds(ret.result)

C5_Witness ==
    /\ ret.call = "B" /\ ret.n = 2
    /\ Cardinality(ret.avoid_ids) = 1
    /\ Len(candidates) = 4
    /\ ret.result[1].id = ret.result[2].id

\* The arguments generate_exam rejects.
InvalidArguments == n_exercises <= 0 \/ candidates = <<>>

\* C6: with n_exercises <= 0 or candidates empty, in either mode,
\* generate_exam fails with InvalidConfiguration, and no generator exists
\* and no question has been drawn at any point of the call.
C6_InvalidConfiguration ==
    (InvalidArguments /\ pc \notin {"idle", "load_failed", "generate_exam"})
        => /\ Raised
           /\ err.kind = "InvalidConfiguration"
           /\ rng = 0 /\ draws = 0 /\ a = <<>> /\ b = <<>>
           /\ exam = EmptyExam

C6_Witness ==
    /\ pc = "raised" /\ two_versions /\ n_exercises = 0
    /\ candidates # <<>>
    /\ err.kind = "InvalidConfiguration"

\* C7: an InsufficientPool failure comes before any question has been
\* sampled.  In two-version mode a candidate list shorter than needed
\* (n_exercises with repeats allowed, 2 * n_exercises without) fails in
\* the up-front check, and once that check has passed the draws of A and
\* of B do not fail.
C7_UpFront ==
    /\ err.kind = "InsufficientPool" => (draws = 0 /\ a = <<>> /\ b = <<>>)
    /\ (two_versions /\ err.kind = "InsufficientPool")
          => /\ err.site = "generate_exam"
             /\ err.available = Len(candidates)
             /\ err.needed = (IF allow_repeat THEN n_exercises
                              ELSE 2 * n_exercises)
             /\ err.available < err.needed
    /\ (two_versions /\ pc \in {"pickA", "pickB"} \cup {"returned", "done"})
          => Len(candidates) >= (IF allow_repeat THEN n_exercises
                                 ELSE 2 * n_exercises)

C7_Witness ==
    /\ pc = "returned" /\ two_versions /\ ~allow_repeat
    /\ UniqueIds(candidates)
    /\ n_exercises = 2 /\ Len(candidates) = 4 /\ draws = 2

\* C8: when generate_exam has failed, the error is shown and the run
\* stops: no PDF is made and no PDF download is offered.  A PDF exists
\* only once generate_exam has returned a complete exam, and is made from
\* that exam.
C8_NoPartialDocument ==
    /\ err # NoError => (pdf = EmptyExam /\ ~download /\ exam = EmptyExam)
    /\ pc = "stopped" => (shown = err /\ err # NoError)
    /\ (download \/ pdf # EmptyExam)
          => /\ pc = "done"
             /\ err = NoError /\ shown = NoError
             /\ DOMAIN exam = (IF two_versions THEN {"A", "B"} ELSE {"A"})
             /\ \A v \in DOMAIN exam : Len(exam[v]) = n_exercises
             /\ DOMAIN pdf = DOMAIN exam
             /\ \A v \in DOMAIN pdf : Len(pdf[v]) = n_exercises

C8_Witness ==
    /\ pc = "stopped" /\ shown.kind = "InsufficientPool"
    /\ pdf = EmptyExam /\ ~download

\* The positions of bank that the selectors keep.
Kept ==
    { i \in 1..Len(bank) :
        /\ topic = Tots \/ bank[i].topic = topic
        /\ difficulty = Totes
              \/ Lower(bank[i].difficulty) = Lower(difficulty) }

\* The i-th smallest element of a set of positions.
Nth(S, i) == CHOOSE k \in S : Cardinality({ j \in S : j <= k }) = i

\* C9: filter_bank returns exactly the questions of bank, in bank order,
\* whose topic equals the topic selector (any topic under the wildcard)
\* and whose difficulty equals the difficulty selector regardless of case
\* (any difficulty under the wildcard).
C9_FilterBank ==
    pc \notin {"idle", "load_failed"} =>
        /\ Len(candidates) = Cardinality(Kept)
        /\ \A i \in 1..Len(candidates) : candidates[i] = bank[Nth(Kept, i)]

C9_Witness ==
    /\ pc = "generate_exam"
    /\ difficulty = <<"B">> /\ topic = Tots
    /\ Len(candidates) = 2 /\ Len(bank) = 4
    /\ candidates[1] = bank[2] /\ candidates[2] = bank[4]

\* The previous call and this one both returned an exam, for the same
\* candidates, seed and n_exercises.
SameDraw ==
    /\ log # <<>>
    /\ log[1].exam # EmptyExam
    /\ Returned
    /\ log[1].candidates = candidates
    /\ log[1].seed = seed
    /\ log[1].n_exercises = n_exercises

\* C10: for the same seed, candidates and n_exercises, variant A is the
\* same in every successful call, whatever two_versions and
\* allow_repeat_between_versions are; A is the first draw of the call and
\* avoids nothing.
C10_SameA ==
    /\ SameDraw => exam["A"] = log[1].exam["A"]
    /\ ret.call = "A" => (ret.avoid_ids = {} /\ draws = 1)
    /\ ret.call = "B" => draws = 2

C10_Witness ==
    /\ SameDraw /\ pc = "returned"
    /\ two_versions /\ ~log[1].two_versions
    /\ n_exercises = 2 /\ Len(candidates) = 4
    /\ exam["A"] = log[1].exam["A"]

=============================================================================
